---- MODULE Spec2Model ----
(***************************************************************************)
(* restinio: the sendfile operation runner for a plain tcp socket          *)
(* (dev/restinio/impl/sendfile_operation.hpp).                             *)
(*                                                                         *)
(* One operation object is modelled together with the three things it      *)
(* talks to: the kernel (::sendfile on a file of file_len bytes), the      *)
(* socket (its non-blocking flag and its async_wait readiness service) and *)
(* the steady clock.  Every sendfile call and every readiness resolution   *)
(* is one step; what they return is chosen by the environment.             *)
(***************************************************************************)
EXTENDS Integers, Sequences, FiniteSets

\* ------------------------------------------------------------------ bounds
MaxSize == 3               \* sf_opts.size() ranges over 0..MaxSize
MaxChunk == 2              \* sf_opts.chunk_size() ranges over 1..MaxChunk
MaxOffset == 1             \* sf_opts.offset() is 0 or MaxOffset
MaxTimelimit == 1          \* sf_opts.timelimit() ranges over -1..MaxTimelimit
MaxFile == MaxSize + 1     \* the file holds 0..MaxFile bytes after the offset
MaxTime == MaxTimelimit    \* the steady clock ranges over 0..MaxTime
MaxLog == MaxSize + 1      \* the observation logs keep their first MaxLog entries

\* ------------------------------------------------------------ error codes
NoError == "success"
EAGAIN == "EAGAIN"
NoErrno == "0"
SendfileErrnos == {"EPIPE"}
NonBlockingErrors == {"EBADF"}
WaitErrors == {"operation_aborted"}

VARIABLES
    size,                \* sf_opts.size(), fixed at construction
    file_len,            \* length of the file behind m_file_descriptor
    m_next_write_offset,
    m_remained_size,
    m_transfered_size,
    m_chunk_size,
    m_expires_after,
    non_blocking,        \* m_socket.native_non_blocking()
    now,                 \* std::chrono::steady_clock::now()
    pc,                  \* "constructed", "loop" (before a sendfile call), "returned"
    pending_waits,       \* async_wait handlers registered and not yet run
    cb_log,              \* invocations of m_after_sendfile_cb: [ec, bytes, late]
    sf_log,              \* ::sendfile calls: [count, rc, errno]
    n_attempts,          \* number of ::sendfile calls (MaxLog + 1: more than MaxLog)
    wait_log,            \* resolved readiness waits: the error codes
    accepted,            \* bytes the socket accepted from ::sendfile so far
    late_attempt,        \* a ::sendfile call was made at or after m_expires_after
    stalled_at_deadline, \* m_expires_after passed during a wait after EAGAIN
    cancelled_at,        \* -1, or the bytes accepted when the socket's pending
                         \* operations were cancelled (m_socket.cancel / close)
    \* A second operation, for the same request, of the generic
    \* sendfile_operation_runner_t< Socket >:
    g_pc,                \* "constructed", "returned"
    g_cb_log,            \* its invocations of m_after_sendfile_cb
    g_delivered,         \* bytes it handed to its socket
    \* The shared ownership of the operation (std::enable_shared_from_this):
    caller_holds,        \* the caller still holds its shared_ptr to the operation
    ctx_held,            \* copies of ctx alive: in pending and in running handlers
    in_handler           \* init_next_write() is running, called from a handler

vars == << size, file_len, m_next_write_offset, m_remained_size, m_transfered_size,
           m_chunk_size, m_expires_after, non_blocking, now, pc, pending_waits,
           cb_log, sf_log, n_attempts, wait_log, accepted, late_attempt,
           stalled_at_deadline, cancelled_at, g_pc, g_cb_log, g_delivered,
           caller_holds, ctx_held, in_handler >>

generic_vars == << g_pc, g_cb_log, g_delivered >>

lifetime_vars == << caller_holds, ctx_held, in_handler >>

\* ----------------------------------------------------------------- helpers
Min(a, b) == IF a < b THEN a ELSE b

\* An observation log keeps its first MaxLog entries.
Log(log, entry) == IF Len(log) < MaxLog THEN Append(log, entry) ELSE log

\* The number of calls, counted up to MaxLog + 1 ("more than the log holds").
Count(n) == IF n <= MaxLog THEN n + 1 ELSE n

\* Bytes of the file at and after the current file offset.
BytesAvailable == IF file_len > m_next_write_offset
                  THEN file_len - m_next_write_offset ELSE 0

\* The steady clock has reached m_expires_after.
DeadlineReached == now >= m_expires_after

\* ------------------------------------------------------------ the program
\* Faulty variants of SendfileCount: the chunk size alone; the remaining size
\* alone.
SendfileCount_NoMin(remained, chunk) == chunk
SendfileCount_NoChunk(remained, chunk) == remained
\* Faulty variant of SendfileCount: std::max in place of std::min.
SendfileCount_Max(remained, chunk) == IF remained > chunk THEN remained ELSE chunk

\* std::min< file_size_t >( m_remained_size, m_chunk_size )
SendfileCount(remained, chunk) == Min(remained, chunk)

\* Faulty variants of IsWouldBlock: every errno is retried; none is.
IsWouldBlock_Any(errno) == TRUE
IsWouldBlock_Never(errno) == FALSE

\* errno == EAGAIN
IsWouldBlock(errno) == errno = EAGAIN

\* m_remained_size -= n;
RemainedAfter(remained, n) == remained - n

\* Faulty variants of TransferedAfter: the addition is left out; it is made
\* twice.
TransferedAfter_Forgotten(transfered, n) == transfered
TransferedAfter_Twice(transfered, n) == transfered + n + n

\* m_transfered_size += n;
TransferedAfter(transfered, n) == transfered + n

\* Faulty variants of HandlerCompletes: the handler reports completion whenever
\* it runs; it does not look at ec; it does not look at m_remained_size; it
\* always calls init_next_write() again.
HandlerCompletes_Always(ec, remained) == TRUE
HandlerCompletes_IgnoresEc(ec, remained) == remained = 0
HandlerCompletes_OnlyEc(ec, remained) == ec # NoError
HandlerCompletes_Never(ec, remained) == FALSE

\* if( ec || 0 == m_remained_size ) in the async_wait handler
HandlerCompletes(ec, remained) == ec # NoError \/ remained = 0

\* m_after_sendfile_cb( ec, m_transfered_size )
InvokeCallback(ec) ==
    cb_log' = Log(cb_log, [ec |-> ec, bytes |-> m_transfered_size,
                            late |-> DeadlineReached])

\* The number of shared_ptr owners of the operation.
use_count == (IF caller_holds THEN 1 ELSE 0) + ctx_held

\* Faulty variant of CtxAcquire: the handler captures this alone.
CtxAcquire_RawThis(held) == held

\* ctx = this->shared_from_this() in the capture of the handler
CtxAcquire(held) == held + 1

\* The handler object is destroyed after it has run, and its ctx with it.
CtxRelease(held) == held - 1

\* init_next_write() returns; a handler that called it returns as well.
HandlerReturn(held) == IF in_handler THEN CtxRelease(held) ELSE held

\* m_socket.async_wait( wait_write, bind_executor( m_executor, handler ) ),
\* followed by the break out of the loop and the return of init_next_write().
WaitWriteIsPossible ==
    /\ pending_waits' = pending_waits + 1
    /\ ctx_held' = HandlerReturn(CtxAcquire(ctx_held))

\* What ::sendfile( socket, fd, &offset, count ) can return: [rc, errno].
\* A descriptor error is possible on every call; with nothing to send (count 0
\* or end of file) the call returns 0; otherwise it sends 1..count bytes or
\* finds the socket buffer full.
SendfileResults(count) ==
    LET sendable == Min(count, BytesAvailable) IN
       { [rc |-> -1, errno |-> e] : e \in SendfileErrnos }
    \cup (IF sendable = 0
          THEN { [rc |-> 0, errno |-> NoErrno] }
          ELSE { [rc |-> n, errno |-> NoErrno] : n \in 1..sendable }
               \cup { [rc |-> -1, errno |-> EAGAIN] })

\* Faulty variant of EnterInitNextWrite: no return after the callback that
\* reports the failed switch, so the loop is entered in blocking mode.
EnterInitNextWrite_NoReturn ==
    \/ /\ non_blocking
       /\ pc' = "loop"
       /\ UNCHANGED << non_blocking, cb_log >>
    \/ /\ ~non_blocking
       /\ non_blocking' = TRUE
       /\ pc' = "loop"
       /\ UNCHANGED cb_log
    \/ /\ ~non_blocking
       /\ \E ec \in NonBlockingErrors : InvokeCallback(ec)
       /\ pc' = "loop"
       /\ UNCHANGED non_blocking

\* The head of init_next_write(): make the socket non-blocking, report a failure
\* to do so through the callback, otherwise enter the loop.
EnterInitNextWrite ==
    \/ /\ non_blocking
       /\ pc' = "loop"
       /\ UNCHANGED << non_blocking, cb_log >>
    \/ /\ ~non_blocking
       /\ non_blocking' = TRUE
       /\ pc' = "loop"
       /\ UNCHANGED cb_log
    \/ /\ ~non_blocking
       /\ \E ec \in NonBlockingErrors : InvokeCallback(ec)
       /\ pc' = "returned"
       /\ UNCHANGED non_blocking

\* The caller starts the operation.
Start ==
    /\ pc = "constructed"
    /\ caller_holds
    /\ UNCHANGED generic_vars
    /\ UNCHANGED lifetime_vars
    /\ EnterInitNextWrite
    /\ UNCHANGED << size, file_len, m_next_write_offset, m_remained_size,
                    m_transfered_size, m_chunk_size, m_expires_after, now,
                    pending_waits, sf_log, n_attempts, wait_log, accepted,
                    late_attempt, stalled_at_deadline, cancelled_at >>

\* One turn of the while( true ) loop: the system call and the branch on n.
SendfileAttempt ==
    /\ pc = "loop"
    /\ UNCHANGED generic_vars
    /\ LET count == SendfileCount(m_remained_size, m_chunk_size) IN
       \E r \in SendfileResults(count) :
          /\ sf_log' = Log(sf_log, [count |-> count, rc |-> r.rc,
                                    errno |-> r.errno])
          /\ late_attempt' = (late_attempt \/ DeadlineReached)
          /\ n_attempts' = Count(n_attempts)
          /\ accepted' = IF r.rc > 0 THEN accepted + r.rc ELSE accepted
          /\ IF r.rc = -1
             THEN /\ IF IsWouldBlock(r.errno)
                     THEN WaitWriteIsPossible /\ UNCHANGED cb_log
                     ELSE /\ InvokeCallback(r.errno)
                          /\ ctx_held' = HandlerReturn(ctx_held)
                          /\ UNCHANGED pending_waits
                  /\ pc' = "returned"
                  /\ UNCHANGED << m_next_write_offset, m_remained_size,
                                  m_transfered_size >>
             ELSE IF r.rc = 0
             THEN /\ WaitWriteIsPossible
                  /\ pc' = "returned"
                  /\ UNCHANGED << cb_log, m_next_write_offset, m_remained_size,
                                  m_transfered_size >>
             ELSE /\ m_next_write_offset' = m_next_write_offset + r.rc
                  /\ m_remained_size' = RemainedAfter(m_remained_size, r.rc)
                  /\ m_transfered_size' = TransferedAfter(m_transfered_size, r.rc)
                  /\ pc' = "loop"
                  /\ UNCHANGED << cb_log, pending_waits, ctx_held >>
    /\ in_handler' = (in_handler /\ pc' = "loop")
    /\ UNCHANGED << size, file_len, m_chunk_size, m_expires_after, non_blocking,
                    now, wait_log, stalled_at_deadline, cancelled_at,
                    caller_holds >>

\* What a pending async_wait can resolve with: the socket became writable, or
\* the wait failed; a wait cancelled by the owner of the socket resolves with
\* operation_aborted.
WaitOutcomes ==
    IF cancelled_at >= 0 THEN {"operation_aborted"} ELSE {NoError} \cup WaitErrors

\* The reactor runs one registered async_wait handler with the wait's result.
WaitResolve ==
    /\ pc = "returned"
    /\ pending_waits > 0
    /\ UNCHANGED generic_vars
    /\ \E ec \in WaitOutcomes :
          /\ wait_log' = Log(wait_log, ec)
          /\ pending_waits' = pending_waits - 1
          /\ IF HandlerCompletes(ec, m_remained_size)
             THEN /\ InvokeCallback(ec)
                  /\ UNCHANGED << pc, non_blocking >>
             ELSE EnterInitNextWrite
    /\ in_handler' = (pc' = "loop")
    /\ ctx_held' = IF pc' = "loop" THEN ctx_held ELSE CtxRelease(ctx_held)
    /\ UNCHANGED caller_holds
    /\ UNCHANGED << size, file_len, m_next_write_offset, m_remained_size,
                    m_transfered_size, m_chunk_size, m_expires_after, now,
                    sf_log, n_attempts, accepted, late_attempt,
                    stalled_at_deadline, cancelled_at >>

\* The owner of the socket cancels its pending operations (or closes it) while
\* the operation's readiness wait is pending.
Cancel ==
    /\ pc = "returned"
    /\ pending_waits > 0
    /\ cancelled_at < 0
    /\ cancelled_at' = accepted
    /\ UNCHANGED generic_vars
    /\ UNCHANGED lifetime_vars
    /\ UNCHANGED << size, file_len, m_next_write_offset, m_remained_size,
                    m_transfered_size, m_chunk_size, m_expires_after,
                    non_blocking, now, pc, pending_waits, cb_log, sf_log,
                    n_attempts, wait_log, accepted, late_attempt,
                    stalled_at_deadline >>

\* A readiness wait is pending because the last ::sendfile call returned EAGAIN.
StalledInWait ==
    /\ pending_waits > 0
    /\ n_attempts = Len(sf_log)
    /\ sf_log # << >>
    /\ sf_log[Len(sf_log)].errno = EAGAIN

\* The steady clock advances.
Tick ==
    /\ now < MaxTime
    /\ UNCHANGED generic_vars
    /\ UNCHANGED lifetime_vars
    /\ now' = now + 1
    /\ stalled_at_deadline' =
          \/ stalled_at_deadline
          \/ /\ now < m_expires_after
             /\ now + 1 >= m_expires_after
             /\ StalledInWait
    /\ UNCHANGED << size, file_len, m_next_write_offset, m_remained_size,
                    m_transfered_size, m_chunk_size, m_expires_after,
                    non_blocking, pc, pending_waits, cb_log, sf_log, n_attempts,
                    wait_log, accepted, late_attempt, cancelled_at >>

\* The caller drops its shared_ptr to the operation; it does so after its call
\* of init_next_write() has returned.
CallerRelease ==
    /\ caller_holds
    /\ pc = "returned" \/ in_handler
    /\ caller_holds' = FALSE
    /\ UNCHANGED << ctx_held, in_handler >>
    /\ UNCHANGED generic_vars
    /\ UNCHANGED << size, file_len, m_next_write_offset, m_remained_size,
                    m_transfered_size, m_chunk_size, m_expires_after,
                    non_blocking, now, pc, pending_waits, cb_log, sf_log,
                    n_attempts, wait_log, accepted, late_attempt,
                    stalled_at_deadline, cancelled_at >>

\* The operation has come to rest: its code is not running and no readiness
\* wait is pending.
AtRest == pc = "returned" /\ pending_waits = 0

\* init_next_write() of the generic sendfile_operation_runner_t< Socket >: its
\* body is commented out, so the call returns at once, having sent nothing,
\* registered nothing and invoked no callback.  The two operations share no
\* state; the generic one is run once the tcp one has come to rest.
GenericInitNextWrite ==
    /\ g_pc = "constructed"
    /\ AtRest
    /\ g_pc' = "returned"
    /\ UNCHANGED << g_cb_log, g_delivered >>
    /\ UNCHANGED lifetime_vars
    /\ UNCHANGED << size, file_len, m_next_write_offset, m_remained_size,
                    m_transfered_size, m_chunk_size, m_expires_after,
                    non_blocking, now, pc, pending_waits, cb_log, sf_log,
                    n_attempts, wait_log, accepted, late_attempt,
                    stalled_at_deadline, cancelled_at >>

\* The state after the constructor of sendfile_operation_runner_base_t.
Init ==
    /\ size \in 0..MaxSize
    /\ m_next_write_offset \in {0, MaxOffset}
    /\ file_len \in m_next_write_offset..(m_next_write_offset + MaxFile)
    /\ m_remained_size = size
    /\ m_transfered_size = 0
    /\ m_chunk_size \in 1..MaxChunk
    /\ now = 0
    /\ \E timelimit \in -1..MaxTimelimit : m_expires_after = now + timelimit
    /\ non_blocking \in BOOLEAN
    /\ pc = "constructed"
    /\ pending_waits = 0
    /\ cb_log = << >>
    /\ sf_log = << >>
    /\ n_attempts = 0
    /\ wait_log = << >>
    /\ accepted = 0
    /\ late_attempt = FALSE
    /\ stalled_at_deadline = FALSE
    /\ cancelled_at = -1
    /\ g_pc = "constructed"
    /\ g_cb_log = << >>
    /\ g_delivered = 0
    /\ caller_holds = TRUE
    /\ ctx_held = 0
    /\ in_handler = FALSE

Next ==
    \/ Start \/ SendfileAttempt \/ WaitResolve \/ Tick \/ Cancel
    \/ GenericInitNextWrite \/ CallerRelease

Spec == Init /\ [][Next]_vars

\* The reactor runs every handler it was given, the running code proceeds, and a
\* socket that is polled again and again accepts bytes at some point.
FairSpec ==
    /\ Spec
    /\ WF_vars(Start)
    /\ WF_vars(SendfileAttempt)
    /\ WF_vars(WaitResolve)
    /\ SF_vars(SendfileAttempt /\ m_transfered_size' > m_transfered_size)

\* ------------------------------------------------------------------ claims
\* The descriptor is valid: size > 0 and chunk_size > 0.
ValidDescriptor == size > 0 /\ m_chunk_size > 0

Callbacks == 1..Len(cb_log)
Attempts == 1..Len(sf_log)

\* C1: for a valid descriptor the completion callback is invoked exactly once:
\* never twice, and, when every registered readiness wait is resolved, it is
\* invoked at some point after init_next_write() was called.
C1_CallbackExactlyOnce ==
    /\ [](ValidDescriptor => Len(cb_log) <= 1)
    /\ ((ValidDescriptor /\ pc # "constructed") ~> (Len(cb_log) = 1))

\* C2: in every reachable state m_remained_size + m_transfered_size equals
\* sf_opts.size().
C2_SizeConserved == m_remained_size + m_transfered_size = size

\* C2 witness: bytes were sent in part, the socket would block, the wait was
\* resolved and a later attempt failed.
C2_Witness ==
    /\ m_transfered_size > 0
    /\ m_remained_size > 0
    /\ \E i \in Attempts : sf_log[i].errno = EAGAIN
    /\ \E i \in Attempts : sf_log[i].errno \in SendfileErrnos
    /\ \E i \in Attempts : sf_log[i].rc = 0

\* C3: from one state to the next m_transfered_size never decreases and never
\* exceeds sf_opts.size(), m_remained_size never increases and never goes below 0.
C3_Monotonic ==
    [][ /\ m_transfered_size' >= m_transfered_size
        /\ m_transfered_size' <= size
        /\ m_remained_size' <= m_remained_size
        /\ m_remained_size' >= 0 ]_vars

\* C3 witness: the whole size was transferred in more than one step.
C3_Witness ==
    /\ m_transfered_size = size
    /\ m_remained_size = 0
    /\ Cardinality({ i \in Attempts : sf_log[i].rc > 0 }) >= 2

\* C4: a callback invoked without an error code carries sf_opts.size() bytes.
C4_SuccessCarriesTotal ==
    \A i \in Callbacks : cb_log[i].ec = NoError => cb_log[i].bytes = size

\* C4 witness: a success callback for a transfer that needed several attempts
\* and a readiness wait in the middle.
C4_Witness ==
    /\ cb_log # << >>
    /\ cb_log[1].ec = NoError
    /\ size > 1
    /\ \E i \in Attempts : sf_log[i].errno = EAGAIN

\* C5: a callback invoked with an error code carries the sum of the positive
\* results of the transfer attempts made before it.
C5_FailureCarriesAccepted ==
    \A i \in Callbacks : cb_log[i].ec # NoError => cb_log[i].bytes = accepted

\* C5 witness: a failure reported after some bytes had been accepted.
C5_Witness ==
    /\ cb_log # << >>
    /\ cb_log[1].ec # NoError
    /\ accepted > 0
    /\ accepted < size

\* C6: with the deadline already in the past at construction (the clock reads 0
\* then), the operation makes no transfer attempt and reports a timeout with 0
\* bytes.  The operation has no error code of its own for a timeout: any error
\* code is taken for the timeout outcome.
C6_PastDeadlineNoAttempt ==
    (ValidDescriptor /\ m_expires_after < 0) =>
        /\ sf_log = << >>
        /\ \A i \in Callbacks : cb_log[i].ec # NoError /\ cb_log[i].bytes = 0

\* C7: when the deadline passes while the transfer is stalled in a readiness
\* wait after a would-block, no transfer attempt is made at or after the deadline, and a
\* callback invoked at or after the deadline reports a timeout (any error code
\* is taken for it) with less than the full size.
C7_NoAttemptAfterDeadline ==
    stalled_at_deadline =>
        /\ ~late_attempt
        /\ \A k \in Callbacks :
              cb_log[k].late => cb_log[k].ec # NoError /\ cb_log[k].bytes < size

\* C8: a transfer attempt that fails with an errno other than EAGAIN is the last
\* attempt: the callback has been invoked once, with that errno and the bytes
\* transferred so far, and no readiness wait is registered.
C8_ErrorIsFinal ==
    \A i \in Attempts :
        (sf_log[i].rc = -1 /\ sf_log[i].errno # EAGAIN) =>
            /\ i = Len(sf_log)
            /\ n_attempts = i
            /\ pc = "returned"
            /\ pending_waits = 0
            /\ Len(cb_log) = 1
            /\ cb_log[1].ec = sf_log[i].errno
            /\ cb_log[1].bytes = m_transfered_size
            /\ cb_log[1].bytes = accepted

\* C8 witness: an attempt failed in the middle of the transfer.
C8_Witness ==
    /\ \E i \in Attempts : sf_log[i].errno \in SendfileErrnos
    /\ m_transfered_size > 0
    /\ m_remained_size > 0
    /\ cb_log # << >>

\* The sizes ceil(size / chunk) attempts request, each min(remaining, chunk).
RECURSIVE C9_Chunks(_, _)
C9_Chunks(s, c) ==
    IF s = 0 THEN << >>
    ELSE IF s <= c THEN << s >>
    ELSE << c >> \o C9_Chunks(s - c, c)

IsPrefix(s, t) == Len(s) <= Len(t) /\ \A i \in 1..Len(s) : s[i] = t[i]

Counts == [ i \in Attempts |-> sf_log[i].count ]

\* Every attempt so far sent all it was asked to send, and every readiness wait
\* resolved without error: the socket is always writable and the file holds the
\* requested range.
AlwaysWritable ==
    /\ \A i \in Attempts : sf_log[i].rc = sf_log[i].count
    /\ \A w \in 1..Len(wait_log) : wait_log[w] = NoError

SuccessReported == cb_log # << >> /\ cb_log[1].ec = NoError

WouldBlockStep ==
    /\ Len(sf_log') = Len(sf_log) + 1
    /\ sf_log'[Len(sf_log')].errno = EAGAIN

\* A step in which a readiness wait registered after a would-block resolved
\* without error.
ResumeStep ==
    /\ Len(wait_log') = Len(wait_log) + 1
    /\ wait_log'[Len(wait_log')] = NoError
    /\ m_remained_size > 0

WouldBlockSeen == \E i \in Attempts : sf_log[i].errno = EAGAIN

C11_CancelObservedAtResumption ==
    cancelled_at >= 0 =>
        /\ pc = "returned"
        /\ accepted = cancelled_at
        /\ m_transfered_size = cancelled_at
        /\ pending_waits <= 1
        /\ (pending_waits = 1) = (cb_log = << >>)
        /\ cb_log # << >> =>
              /\ Len(cb_log) = 1
              /\ cb_log[1].ec = "operation_aborted"
              /\ cb_log[1].bytes = cancelled_at

\* C11 witness: cancelled after one chunk of several, and the callback made.
C11_Witness ==
    /\ cancelled_at > 0
    /\ cancelled_at < size
    /\ cb_log # << >>
    /\ \E i \in Attempts : sf_log[i].rc > 0

\* An attempt that asked for bytes and got 0: the file ended before the
\* requested range did.
ZeroProgress(i) == sf_log[i].rc = 0 /\ sf_log[i].count > 0

\* C12: a transfer attempt that returns 0 while bytes remain is not retried and
\* is not followed by a success report: it is the last attempt, and a callback
\* made after it carries an error code and the bytes transferred so far.
C12_ZeroResultIsTerminal ==
    \A i \in Attempts :
        ZeroProgress(i) =>
            /\ i = Len(sf_log)
            /\ n_attempts = i
            /\ \A k \in Callbacks :
                  cb_log[k].ec # NoError /\ cb_log[k].bytes = m_transfered_size

\* C13: for the same request the generic runner and the tcp-socket runner hand
\* the same bytes of the file to the socket and make the same callback: once
\* both have run and come to rest, the bytes delivered, the number of callbacks
\* and each callback's error code and byte count agree (stated for the requests
\* the tcp-socket runner completes with success).
C13_StrategiesAgree ==
    (AtRest /\ g_pc = "returned" /\ ValidDescriptor /\ cb_log # << >>
        /\ cb_log[1].ec = NoError) =>
        /\ g_delivered = accepted
        /\ Len(g_cb_log) = Len(cb_log)
        /\ \A k \in Callbacks :
              /\ g_cb_log[k].ec = cb_log[k].ec
              /\ g_cb_log[k].bytes = cb_log[k].bytes

C15_WaitOnlyAfterWouldBlock ==
    (ValidDescriptor /\ pending_waits > 0 /\ n_attempts = Len(sf_log)) =>
        /\ sf_log # << >>
        /\ sf_log[Len(sf_log)].rc = -1
        /\ sf_log[Len(sf_log)].errno = EAGAIN

\* The bytes the socket accepted in the ::sendfile calls before call i.
RECURSIVE C16_AcceptedBefore(_)
C16_AcceptedBefore(i) ==
    IF i <= 1 THEN 0
    ELSE C16_AcceptedBefore(i - 1)
         + (IF sf_log[i - 1].rc > 0 THEN sf_log[i - 1].rc ELSE 0)

\* C16: every ::sendfile call requests min(remaining, chunk_size) bytes: not
\* more than the chunk size, not more than the bytes still remaining when the
\* call is made, and as much as one of the two.
C16_RequestIsMin ==
    \A i \in Attempts :
        LET remaining == size - C16_AcceptedBefore(i)
            count == sf_log[i].count
        IN  /\ count <= m_chunk_size
            /\ count <= remaining
            /\ count = m_chunk_size \/ count = remaining

\* C16 witness: one call bounded by the chunk size with more remaining, and a
\* later call bounded by the remaining size with a larger chunk size.
C16_Witness ==
    \E i, j \in Attempts :
        /\ i < j
        /\ sf_log[i].count = m_chunk_size
        /\ sf_log[i].count < size - C16_AcceptedBefore(i)
        /\ sf_log[j].count = size - C16_AcceptedBefore(j)
        /\ sf_log[j].count < m_chunk_size
        /\ sf_log[j].count > 0

\* A step in which a readiness wait resolved with an error.
WaitErrorStep ==
    /\ Len(wait_log') = Len(wait_log) + 1
    /\ wait_log'[Len(wait_log')] \in WaitErrors

\* The last readiness wait resolved with an error.
WaitFailed == wait_log # << >> /\ wait_log[Len(wait_log)] \in WaitErrors

\* C17: a readiness wait that resolves with an error ends the operation: in
\* that step the callback is invoked with that error and the transferred count
\* as it stands, and afterwards no ::sendfile call, no wait and no callback
\* follows; a wait that resolves without error with bytes remaining re-enters
\* the loop and leaves the transferred and remaining counts as they were.
C17_WaitErrorIsTerminal ==
    /\ [][WaitErrorStep =>
            /\ Len(cb_log') = Len(cb_log) + 1
            /\ cb_log'[Len(cb_log')].ec = wait_log'[Len(wait_log')]
            /\ cb_log'[Len(cb_log')].bytes = m_transfered_size
            /\ m_transfered_size' = m_transfered_size
            /\ m_remained_size' = m_remained_size
            /\ sf_log' = sf_log
            /\ pc' = "returned"
            /\ pending_waits' = 0]_vars
    /\ [](WaitFailed =>
            /\ pc = "returned"
            /\ pending_waits = 0
            /\ Len(cb_log) = 1
            /\ cb_log[1].ec = wait_log[Len(wait_log)]
            /\ cb_log[1].bytes = m_transfered_size)
    /\ [][WaitFailed =>
            /\ sf_log' = sf_log
            /\ n_attempts' = n_attempts
            /\ wait_log' = wait_log
            /\ cb_log' = cb_log]_vars
    /\ [][ResumeStep =>
            /\ pc' = "loop"
            /\ sf_log' = sf_log
            /\ m_transfered_size' = m_transfered_size
            /\ m_remained_size' = m_remained_size]_vars

\* C17 witness: one wait resolved without error and the loop went on, a later
\* wait resolved with an error with part of the file sent.
C17_Witness ==
    /\ WaitFailed
    /\ \E w \in 1..Len(wait_log) : wait_log[w] = NoError
    /\ m_transfered_size > 0
    /\ m_remained_size > 0
    /\ cb_log # << >>

\* The switch of the socket to non-blocking mode failed and was reported.
SwitchFailed == \E k \in Callbacks : cb_log[k].ec \in NonBlockingErrors

\* C18: no ::sendfile call is made while the socket is in blocking mode: the
\* loop runs, and a call has been made, only with the socket non-blocking; and
\* when the switch to non-blocking mode fails the callback is invoked once with
\* that error and the transferred count, and no ::sendfile call and no
\* readiness wait follows.
C18_NonBlockingBeforeSendfile ==
    /\ [](pc = "loop" => non_blocking)
    /\ [](sf_log # << >> => non_blocking)
    /\ [][sf_log' # sf_log => non_blocking /\ non_blocking']_vars
    /\ [](SwitchFailed =>
            /\ ~non_blocking
            /\ Len(cb_log) = 1
            /\ cb_log[1].bytes = m_transfered_size
            /\ pc = "returned"
            /\ sf_log = << >>
            /\ n_attempts = 0
            /\ pending_waits = 0
            /\ wait_log = << >>)
    /\ [][SwitchFailed =>
            /\ sf_log' = sf_log
            /\ pending_waits' = pending_waits
            /\ cb_log' = cb_log
            /\ pc' = pc]_vars

\* C18 witness: the switch of a socket found in blocking mode failed and was
\* reported for a request of at least one byte.
C18_Witness ==
    /\ SwitchFailed
    /\ size > 0
    /\ pc = "returned"

\* C19: when every requested byte has been handed to the socket (remaining is
\* 0) the callback reports success: the error or cancellation of a readiness
\* wait is never delivered together with a byte count equal to the requested
\* size.
C19_AllBytesMeansSuccess ==
    ValidDescriptor =>
        \A k \in Callbacks :
            (m_remained_size = 0 /\ cb_log[k].bytes = size) =>
                cb_log[k].ec \notin WaitErrors

\* The last owner is gone: the operation object has been destroyed.
Destroyed == use_count = 0

\* C20: the operation is not destroyed while a readiness wait it registered is
\* pending: every pending handler, and a handler that is running, holds one
\* shared reference to it, so it is alive while its code runs or a wait is
\* pending, whether or not the caller still holds its own reference, and it is
\* destroyed when neither the caller nor a handler holds it.
C20_AliveWhilePending ==
    /\ ctx_held = pending_waits + (IF in_handler THEN 1 ELSE 0)
    /\ in_handler => pc = "loop"
    /\ pending_waits > 0 => ~Destroyed
    /\ pc = "loop" => ~Destroyed
    /\ Destroyed <=> (~caller_holds /\ pending_waits = 0 /\ ~in_handler)

\* C20 witness: the caller has dropped its reference, one handler has run and
\* another wait is pending, which alone keeps the operation alive.
C20_Witness ==
    /\ ~caller_holds
    /\ pending_waits = 1
    /\ use_count = 1
    /\ wait_log # << >>
    /\ m_transfered_size > 0

====
